---- MODULE Spec2Model ----
(***************************************************************************)
(* USGS earthquake dashboard (earthquake_dashboard.py).                    *)
(*                                                                         *)
(* The script is re-executed top to bottom on every user interaction.  It  *)
(* looks the selected feed up through load_data, which is memoised per URL *)
(* with a time-to-live, builds the magnitude slider from the table,        *)
(* filters the table, and presents a table view and a map or a warning.    *)
(*                                                                         *)
(* Library behaviour the script relies on, as modelled here:               *)
(*  - st.cache_data(ttl=600) keeps one entry per URL, shared by all        *)
(*    sessions, and serves it while its age is below the TTL; a missing    *)
(*    value is computed under a lock of its key, the cache being read      *)
(*    again once the lock is held;                                         *)
(*  - st.slider widens [min_value, max_value] to contain `value`, and      *)
(*    returns the session's stored position only while its arguments are   *)
(*    unchanged;                                                           *)
(*  - pd.json_normalize makes a column of every key some feature has.      *)
(*                                                                         *)
(* Numbers: magnitudes are held in hundredths (2.5 is 250), clock values   *)
(* in seconds, feed times in milliseconds (small ones, so that dates, in   *)
(* nanoseconds, stay within the checker's integers).  A JSON               *)
(* null / pandas NaN magnitude is the empty sequence, a present magnitude  *)
(* m is <<m>>.                                                             *)
(***************************************************************************)
EXTENDS Integers, Sequences, FiniteSets, TLC

VARIABLES
    run,        \* SpecRun: one script run of one user, stage by stage
    now,        \* Spec: the clock of the cache (seconds)
    cache,      \* Spec: url -> entry of the load_data cache
    lock,       \* Spec: url -> holder of the cache's per-key compute lock
    pc,         \* Spec: session -> position of its script run
    tf,         \* Spec: session -> selected timeframe
    call,       \* Spec: session -> bookkeeping of its current load_data call
    loaded,     \* Spec: session -> what load_data returned to it
    widget,     \* Spec: session -> slider state kept across reruns
    view,       \* Spec: session -> what the last run rendered
    hist        \* Spec: url -> history of lookups and fetches (observer)

vars == <<run, now, cache, lock, pc, tf, call, loaded, widget, view, hist>>

cacheVars == <<now, cache, lock, pc, tf, call, loaded, widget, view, hist>>

----------------------------------------------------------------------------
(* Bounds of the model *)

MaxFeed == 3        \* longest feed enumerated exhaustively
MaxLong == 22       \* longest patterned feed (beyond the 20-row table view)

(* Program constants *)

TTL == 600          \* @st.cache_data(ttl=600)
DefaultMag == 250   \* slider value=2.5
Step == 10          \* slider step=0.1
HeadRows == 20      \* .head(20)
NsPerMs == 1000000  \* pd.to_datetime(unit="ms") yields datetime64[ns]

----------------------------------------------------------------------------
(* Generic helpers *)

Min2(a, b) == IF a <= b THEN a ELSE b
Max2(a, b) == IF a >= b THEN a ELSE b

SetMin(S) == CHOOSE x \in S : \A y \in S : x <= y
SetMax(S) == CHOOSE x \in S : \A y \in S : x >= y

NaN == <<>>

----------------------------------------------------------------------------
(* 3. load_data: fetch and normalisation                                   *)

Required == {"place", "mag", "time", "coordinates"}

\* requests.get(url); response.json(); data["features"]
\* Any of the three raises on a network failure, a non-JSON body, a body
\* without the key.
FetchFeatures(resp) ==
    IF resp.kind = "neterr" THEN [raised |-> TRUE, features |-> <<>>]
    ELSE IF resp.kind = "notjson" THEN [raised |-> TRUE, features |-> <<>>]
    ELSE IF "features" \notin DOMAIN resp.data
         THEN [raised |-> TRUE, features |-> <<>>]
    ELSE [raised |-> FALSE, features |-> resp.data.features]

\* pd.json_normalize(features): one column per key any feature carries, NaN
\* where a feature lacks it.
Columns(fs) == UNION {DOMAIN fs[i] : i \in 1..Len(fs)}
Cell(f, k) == IF k \in DOMAIN f THEN f[k] ELSE NaN

\* df["coordinates"].apply(lambda x: x[0] / x[1] / x[2]) raises on a cell
\* that is NaN or a list shorter than three.
SplitRaises(fs) == \E i \in 1..Len(fs) : Len(Cell(fs[i], "coordinates")) < 3

ToDatetime(ms) == ms * NsPerMs

RowOf(f) ==
    [place       |-> f.place,
     mag         |-> Cell(f, "mag"),
     time        |-> f.time,
     coordinates |-> f.coordinates,
     lon         |-> f.coordinates[1],
     lat         |-> f.coordinates[2],
     depth       |-> f.coordinates[3],
     date        |-> ToDatetime(f.time)]

NotNull(r) == r.mag # NaN
Positive(r) == r.mag # NaN /\ r.mag[1] > 0

\* (variant: the second filter written  df["mag"] >= 0)
NonNegative(r) == r.mag # NaN /\ r.mag[1] >= 0
FilterInvalidNonNeg(rows) == SelectSeq(SelectSeq(rows, NotNull), NonNegative)

\* df = df[df["mag"].notnull()]; df = df[df["mag"] > 0]
FilterInvalid(rows) == SelectSeq(SelectSeq(rows, NotNull), Positive)

\* Lines 53-74: column selection raises KeyError when a required column is
\* absent from every feature (an empty feature list included).
Normalize(fs) ==
    IF ~(Required \subseteq Columns(fs)) THEN [raised |-> TRUE, rows |-> <<>>]
    ELSE IF SplitRaises(fs) THEN [raised |-> TRUE, rows |-> <<>>]
    ELSE [raised |-> FALSE,
          rows |-> FilterInvalid([i \in 1..Len(fs) |-> RowOf(fs[i])])]

\* The try block of load_data.
TryBody(resp) ==
    LET got == FetchFeatures(resp) IN
    IF got.raised THEN [raised |-> TRUE, rows |-> <<>>]
    ELSE Normalize(got.features)

\* (variant: no except clause around the body)
LoadDataUncaught(resp) ==
    LET body == TryBody(resp) IN
    [df |-> body.rows, error |-> FALSE, raised |-> body.raised]

\* except Exception: st.error(...); return pd.DataFrame()
\* `raised` is what escapes load_data to the script.
LoadData(resp) ==
    LET body == TryBody(resp) IN
    IF body.raised
    THEN [df |-> <<>>, error |-> TRUE, raised |-> FALSE]
    ELSE [df |-> body.rows, error |-> FALSE, raised |-> FALSE]

----------------------------------------------------------------------------
(* 4. Magnitude filter                                                     *)

Mag(r) == r.mag[1]

\* Python round(x, 1) on a value held in hundredths; the magnitudes of the
\* model avoid exact ties, whose direction depends on the binary float.
Round1(m) ==
    LET q == m \div 10
        r == m % 10
    IN  IF r < 5 THEN q * 10
        ELSE IF r > 5 THEN (q + 1) * 10
        ELSE IF q % 2 = 0 THEN q * 10 ELSE (q + 1) * 10

MinMag(df) == SetMin({Mag(df[i]) : i \in 1..Len(df)})
MaxMag(df) == SetMax({Mag(df[i]) : i \in 1..Len(df)})

\* The arguments the script passes to st.sidebar.slider.
SliderArgs(df) ==
    [min_value |-> Round1(MinMag(df)),
     max_value |-> Round1(MaxMag(df)),
     value     |-> DefaultMag]

\* st.slider widens its bounds so that min <= value <= max.
SliderLo(args) == Min2(args.value, args.min_value)
SliderHi(args) == Max2(args.value, args.max_value)

\* The positions the user can drag the slider to.
SliderValues(args) ==
    {v \in SliderLo(args)..SliderHi(args) : (v - SliderLo(args)) % Step = 0}

NoArgs == [min_value |-> 0, max_value |-> 0, value |-> 0]

NoWidget == [args |-> NoArgs, val |-> 0]

\* The value st.slider returns: the session's stored value when the widget
\* is the same one (same arguments), its default otherwise.
SliderValue(args, w) == IF w.args = args THEN w.val ELSE args.value

AtLeast(df, t) ==
    LET Keep(r) == Mag(r) >= t IN SelectSeq(df, Keep)

\* (variant: the comparison written  df["mag"] > mag_filter)
MagFilterStrict(df, t) ==
    LET Keep(r) == Mag(r) > t IN SelectSeq(df, Keep)

\* df = df[df["mag"] >= mag_filter]
MagFilter(df, t) == AtLeast(df, t)

\* Lines 84-98.
FilterStage(df, w) ==
    IF df # <<>>
    THEN LET args == SliderArgs(df)
             t == SliderValue(args, w)
             out == MagFilter(df, t)
         IN  [slider |-> TRUE, args |-> args, mag_filter |-> t,
              df |-> out, total |-> Len(out)]
    ELSE [slider |-> FALSE, args |-> NoArgs, mag_filter |-> 0,
          df |-> df, total |-> 0]

WidgetAfter(df, w) ==
    IF df # <<>>
    THEN [args |-> SliderArgs(df), val |-> SliderValue(SliderArgs(df), w)]
    ELSE w

----------------------------------------------------------------------------
(* 5. and 6. Presentation                                                  *)

RECURSIVE InsertDesc(_, _)
InsertDesc(r, s) ==
    IF s = <<>> THEN <<r>>
    ELSE IF Head(s).date >= r.date THEN <<Head(s)>> \o InsertDesc(r, Tail(s))
    ELSE <<r>> \o s

RECURSIVE SortDescFrom(_, _)
SortDescFrom(s, acc) ==
    IF s = <<>> THEN acc ELSE SortDescFrom(Tail(s), InsertDesc(Head(s), acc))

\* .sort_values("date", ascending=False); rows of equal date keep some order
\* (here their input order), which no property below depends on.
SortValuesDesc(s) == SortDescFrom(s, <<>>)

TakeHead(s, n) == SubSeq(s, 1, Min2(n, Len(s)))

GridRow(r) == [date |-> r.date, place |-> r.place, mag |-> r.mag, depth |-> r.depth]

\* (variant: .head(20) taken before .sort_values)
TableViewHeadFirst(df) ==
    LET cols == [i \in 1..Len(df) |-> GridRow(df[i])]
    IN  SortValuesDesc(TakeHead(cols, HeadRows))

\* df[["date","place","mag","depth"]].sort_values(...).reset_index().head(20)
TableView(df) ==
    LET cols == [i \in 1..Len(df) |-> GridRow(df[i])]
    IN  TakeHead(SortValuesDesc(cols), HeadRows)

NoView == [table_shown |-> FALSE, table |-> <<>>,
           map_shown |-> FALSE, map |-> <<>>, warning |-> FALSE]

\* (variant: the map drawn without its  if not df.empty  guard)
PresentAlwaysMap(df) ==
    [table_shown |-> df # <<>>,
     table       |-> IF df # <<>> THEN TableView(df) ELSE <<>>,
     map_shown   |-> TRUE,
     map         |-> df,
     warning     |-> FALSE]

\* Lines 103-151.
Present(df) ==
    [table_shown |-> df # <<>>,
     table       |-> IF df # <<>> THEN TableView(df) ELSE <<>>,
     map_shown   |-> df # <<>>,
     map         |-> IF df # <<>> THEN df ELSE <<>>,
     warning     |-> ~(df # <<>>)]

----------------------------------------------------------------------------
(* Feeds the provider can answer with                                      *)

Coords3 == <<1397, 356, 100>>

Feat(m, t) == [place |-> "place", mag |-> m, time |-> t, coordinates |-> Coords3]

\* Features with every required field and a full coordinate triple; the
\* magnitude may be null.
OkFeatures ==
    {Feat(<<>>, 1), Feat(<<-100>>, 4), Feat(<<0>>, 2),
     Feat(<<181>>, 3), Feat(<<268>>, 1), Feat(<<310>>, 3)}

ShortCoords == [place |-> "place", mag |-> <<310>>, time |-> 2,
                coordinates |-> <<1397, 356>>]
NoGeometry  == [place |-> "place", mag |-> <<268>>, time |-> 2]
NoMagKey    == [place |-> "place", time |-> 2, coordinates |-> Coords3]

BadFeatures == {ShortCoords, NoGeometry, NoMagKey}

WellFormed(f) == Required \subseteq DOMAIN f /\ Len(f.coordinates) >= 3

ShortFeeds == UNION {[1..n -> OkFeatures \cup BadFeatures] : n \in 0..MaxFeed}

\* Patterned feeds around the 20-row limit of the table view: magnitudes
\* 2.4, 2.5, 2.6 and times permuted by a multiplier.
LongFeed(n, k) ==
    [i \in 1..n |->
        Feat(<<240 + 10 * ((i + k) % 3)>>, 1 + ((i * (6 * k + 1)) % 23))]

LongFeeds == {LongFeed(n, k) : n \in (MaxLong - 3)..MaxLong, k \in 1..2}

Failures == {[kind |-> "neterr"], [kind |-> "notjson"],
             [kind |-> "json", data |-> [type |-> "FeatureCollection"]]}

Json(fs) == [kind |-> "json", data |-> [features |-> fs]]

HasFeatures(resp) == resp.kind = "json" /\ "features" \in DOMAIN resp.data

RunResponses == Failures \cup {Json(fs) : fs \in ShortFeeds \cup LongFeeds}

----------------------------------------------------------------------------
(* SpecRun: the script of one user, one stage per action                   *)

NoLoad == [df |-> <<>>, error |-> FALSE, raised |-> FALSE]
NoFilter == [slider |-> FALSE, args |-> NoArgs, mag_filter |-> 0,
             df |-> <<>>, total |-> 0]

RunOff == [stage |-> "off", resp |-> [kind |-> "neterr"], loaded |-> NoLoad,
           widget |-> NoWidget, filter |-> NoFilter, view |-> NoView]

RunStart(r) == [RunOff EXCEPT !.stage = "start", !.resp = r]

\* df = load_data(url) on a cache miss answered by run.resp
RunLoad ==
    /\ run.stage = "start"
    /\ LET res == LoadData(run.resp) IN
       run' = [run EXCEPT !.loaded = res,
                          !.stage = IF res.raised THEN "crashed" ELSE "loaded"]
    /\ UNCHANGED cacheVars

\* Section 4 of the script
RunFilter ==
    /\ run.stage = "loaded"
    /\ run' = [run EXCEPT !.filter = FilterStage(run.loaded.df, run.widget),
                          !.widget = WidgetAfter(run.loaded.df, run.widget),
                          !.stage = "filtered"]
    /\ UNCHANGED cacheVars

\* Sections 5 and 6 of the script
RunPresent ==
    /\ run.stage = "filtered"
    /\ run' = [run EXCEPT !.view = Present(run.filter.df), !.stage = "done"]
    /\ UNCHANGED cacheVars

\* The user drags the slider; the script reruns and load_data returns the
\* cached table again.
RunMoveSlider ==
    /\ run.stage = "done"
    /\ run.filter.slider
    /\ \E v \in SliderValues(run.filter.args) :
        /\ v # run.widget.val
        /\ run' = [run EXCEPT !.widget = [args |-> run.filter.args, val |-> v],
                              !.filter = NoFilter,
                              !.view = NoView,
                              !.stage = "loaded"]
    /\ UNCHANGED cacheVars

RunNext == RunLoad \/ RunFilter \/ RunPresent \/ RunMoveSlider

----------------------------------------------------------------------------
(* Spec: sessions sharing the load_data cache                              *)

NumSessions == 2    \* concurrent browser sessions
TickLen == 300      \* seconds per clock step
MaxTime == 600      \* the clock stops here

Sessions == 1..NumSessions

Timeframes == {"Past Hour", "Past Day", "Past 7 Days", "Past 30 Days"}

\* timeframe_urls
Url(t) ==
    CASE t = "Past Hour"    -> "all_hour.geojson"
      [] t = "Past Day"     -> "all_day.geojson"
      [] t = "Past 7 Days"  -> "all_week.geojson"
      [] t = "Past 30 Days" -> "all_month.geojson"

Urls == {Url(t) : t \in Timeframes}

\* The timeframes the users of this specification switch between.
UserTimeframes == {"Past Hour", "Past Day"}

\* What the provider may answer to a GET in this specification.
SpecResponses ==
    Failures \cup {Json(<<Feat(<<252>>, 1), Feat(<<258>>, 3)>>),
                   Json(<<Feat(<<310>>, 3), ShortCoords>>)}

NoEntry == [present |-> FALSE, value |-> NoLoad, stored_at |-> 0, fetch |-> 0]

\* (variants: no memoisation; an entry served at an age of exactly the TTL)
FreshNever(e, t) == FALSE
FreshInclusive(e, t) == e.present /\ t <= e.stored_at + TTL

\* ttl=600: an entry is served while its age is below the TTL.
Fresh(e, t) == e.present /\ t < e.stored_at + TTL

\* (variant: the value computed without the lock)
LockFreeAlways(u) == TRUE

\* The cache computes a missing value under a lock of its key.
LockFree(u) == lock[u] = 0

\* What a session knows of its current load_data call: how it was served,
\* by which fetch of the URL, the age of the entry when it was read, whether
\* its fetch replaced an expired failure, and the sessions whose calls for
\* the same URL overlapped it.
NoCall == [via |-> "none", fetch |-> 0, age |-> 0, replaced |-> FALSE,
           peers |-> {}]

\* Per URL: the time of the first lookup, whether a lookup came TTL or more
\* after it, the number of GETs sent, whether the first GET was sent by a
\* lookup made at the time of the first lookup, and what it produced.
NoHist == [first_at |-> -1, late |-> FALSE, fetches |-> 0, by_first |-> FALSE,
           first_done |-> FALSE, first_table |-> NoLoad]

NoScreen == [filter |-> NoFilter, shown |-> NoView]

CacheInit ==
    /\ now = 0
    /\ cache = [u \in Urls |-> NoEntry]
    /\ lock = [u \in Urls |-> 0]
    /\ pc = [s \in Sessions |-> "new"]
    /\ tf = [s \in Sessions |-> "Past Hour"]
    /\ call = [s \in Sessions |-> NoCall]
    /\ loaded = [s \in Sessions |-> NoLoad]
    /\ widget = [s \in Sessions |-> NoWidget]
    /\ view = [s \in Sessions |-> NoScreen]
    /\ hist = [u \in Urls |-> NoHist]

InCall(s, u) == pc[s] \in {"wait", "fetch"} /\ Url(tf[s]) = u

\* The rest of the script after df = load_data(url): sections 4 to 6.
Render(s, res) ==
    LET f == FilterStage(res.df, widget[s]) IN
    /\ loaded' = [loaded EXCEPT ![s] = res]
    /\ widget' = [widget EXCEPT ![s] = WidgetAfter(res.df, widget[s])]
    /\ view' = [view EXCEPT ![s] = [filter |-> f, shown |-> Present(f.df)]]
    /\ pc' = [pc EXCEPT ![s] = "done"]

\* load_data returns the cached copy.
Hit(s, u) ==
    /\ call' = [call EXCEPT ![s].via = "hit",
                            ![s].fetch = cache[u].fetch,
                            ![s].age = now - cache[u].stored_at]
    /\ Render(s, cache[u].value)

\* The script starts: df = load_data(url) reads the cache.
Lookup(s) ==
    LET u == Url(tf[s])
        others == {t \in Sessions \ {s} : InCall(t, u)}
        first == IF hist[u].first_at < 0 THEN now ELSE hist[u].first_at
    IN
    /\ pc[s] = "run"
    /\ hist' = [hist EXCEPT ![u].first_at = first,
                            ![u].late = @ \/ now >= first + TTL]
    /\ IF Fresh(cache[u], now)
       THEN /\ call' = [call EXCEPT ![s] = [NoCall EXCEPT !.via = "hit",
                                    !.fetch = cache[u].fetch,
                                    !.age = now - cache[u].stored_at]]
            /\ Render(s, cache[u].value)
       ELSE /\ call' = [t \in Sessions |->
                          IF t = s THEN [NoCall EXCEPT !.peers = others]
                          ELSE IF t \in others
                               THEN [call[t] EXCEPT !.peers = @ \cup {s}]
                               ELSE call[t]]
            /\ pc' = [pc EXCEPT ![s] = "wait"]
            /\ UNCHANGED <<loaded, widget, view>>
    /\ UNCHANGED <<now, cache, lock, tf, run>>

\* A caller that missed takes the key's lock and reads the cache again: it
\* returns a value stored meanwhile, or sends the GET.
Acquire(s) ==
    LET u == Url(tf[s]) IN
    /\ pc[s] = "wait"
    /\ LockFree(u)
    /\ IF Fresh(cache[u], now)
       THEN /\ Hit(s, u)
            /\ UNCHANGED <<lock, hist>>
       ELSE /\ lock' = [lock EXCEPT ![u] = s]
            /\ pc' = [pc EXCEPT ![s] = "fetch"]
            /\ call' = [call EXCEPT ![s].via = "fetch",
                                    ![s].fetch = hist[u].fetches + 1,
                                    ![s].replaced =
                                        cache[u].present /\ cache[u].value.error]
            /\ hist' = [hist EXCEPT ![u].fetches = @ + 1,
                                    ![u].by_first =
                                        IF hist[u].fetches = 0
                                        THEN now = hist[u].first_at ELSE @]
            /\ UNCHANGED <<loaded, widget, view>>
    /\ UNCHANGED <<now, cache, tf, run>>

\* The GET is answered (or fails); load_data's body runs, the result is
\* stored with the current time, the lock is released, the script goes on.
Finish(s) ==
    LET u == Url(tf[s]) IN
    /\ pc[s] = "fetch"
    /\ \E resp \in SpecResponses :
        LET res == LoadData(resp) IN
        /\ cache' = [cache EXCEPT ![u] = [present |-> TRUE, value |-> res,
                                        stored_at |-> now,
                                        fetch |-> call[s].fetch]]
        /\ hist' = [hist EXCEPT ![u].first_done = @ \/ call[s].fetch = 1,
                                ![u].first_table =
                                    IF call[s].fetch = 1 THEN res ELSE @]
        /\ UNCHANGED call
        /\ Render(s, res)
    /\ lock' = [lock EXCEPT ![u] = 0]
    /\ UNCHANGED <<now, tf, run>>

\* A new script run starts with no table, a cleared page, and the session's
\* widget state.
StartRun(s) ==
    /\ pc' = [pc EXCEPT ![s] = "run"]
    /\ call' = [call EXCEPT ![s] = NoCall]
    /\ loaded' = [loaded EXCEPT ![s] = NoLoad]
    /\ view' = [view EXCEPT ![s] = NoScreen]

\* The user opens the page, or reruns it.
Rerun(s) ==
    /\ pc[s] \in {"new", "done"}
    /\ StartRun(s)
    /\ UNCHANGED <<now, cache, lock, tf, widget, hist, run>>

\* The user picks another timeframe.
SelectTimeframe(s) ==
    /\ pc[s] = "done"
    /\ \E t \in UserTimeframes \ {tf[s]} :
        tf' = [tf EXCEPT ![s] = t]
    /\ StartRun(s)
    /\ UNCHANGED <<now, cache, lock, widget, hist, run>>

\* The user drags the magnitude slider.
MoveSlider(s) ==
    /\ pc[s] = "done"
    /\ view[s].filter.slider
    /\ \E v \in SliderValues(view[s].filter.args) \ {widget[s].val} :
        widget' = [widget EXCEPT ![s] = [args |-> view[s].filter.args, val |-> v]]
    /\ StartRun(s)
    /\ UNCHANGED <<now, cache, lock, tf, hist, run>>

\* A script that can take its next step takes it before the clock moves:
\* only the GET and the user take time.
Pending(s) ==
    \/ pc[s] = "run"
    \/ pc[s] = "wait" /\ LockFree(Url(tf[s]))

Tick ==
    /\ \A s \in Sessions : ~Pending(s)
    /\ now + TickLen <= MaxTime
    /\ now' = now + TickLen
    /\ UNCHANGED <<cache, lock, pc, tf, call, loaded, widget, view, hist, run>>

Init == CacheInit /\ run = RunOff

Next ==
    \/ \E s \in Sessions : Lookup(s)
    \/ \E s \in Sessions : Acquire(s)
    \/ \E s \in Sessions : Finish(s)
    \/ \E s \in Sessions : Rerun(s)
    \/ \E s \in Sessions : SelectTimeframe(s)
    \/ \E s \in Sessions : MoveSlider(s)
    \/ Tick

Spec == Init /\ [][Next]_vars

\* One script run on a provider response, the shared cache left aside.
RunInit == CacheInit /\ run \in {RunStart(r) : r \in RunResponses}

SpecRun == RunInit /\ [][RunNext]_vars

----------------------------------------------------------------------------
(* Properties                                                              *)

\* The j-th smallest element of a set of indices.
NthOf(S, j) == CHOOSE i \in S : Cardinality({k \in S : k <= i}) = j

\* out is the subsequence of src at the indices in keep, in order.
IsSubseqAt(out, src, keep) ==
    /\ Len(out) = Cardinality(keep)
    /\ \A j \in 1..Len(out) : out[j] = src[NthOf(keep, j)]

SameEvent(r, f) ==
    /\ r.place = f.place /\ r.mag = f.mag /\ r.time = f.time
    /\ r.lon = f.coordinates[1] /\ r.lat = f.coordinates[2]
    /\ r.depth = f.coordinates[3]

AllWellFormed(resp) ==
    /\ HasFeatures(resp)
    /\ \A i \in 1..Len(resp.data.features) : WellFormed(resp.data.features[i])

PositiveIdx(fs) ==
    {i \in 1..Len(fs) : fs[i].mag # <<>> /\ fs[i].mag[1] > 0}

Returned == run.stage \in {"loaded", "filtered", "done"}
Filtered == run.stage \in {"filtered", "done"}

Done(s) == pc[s] = "done"

C3_FailureExpires ==
    \A s \in Sessions :
        (Done(s) /\ loaded[s].error /\ call[s].via = "hit") => call[s].age < TTL

\* A lookup found the failure expired, fetched again and got data.
C3_Witness ==
    \E s \in Sessions :
        /\ Done(s) /\ call[s].via = "fetch" /\ call[s].replaced
        /\ ~loaded[s].error /\ loaded[s].df # <<>>

\* C4: every row load_data returns has a magnitude that is not null and is
\* above 0, and for a feed of well-formed features the table is exactly the
\* features of non-null positive magnitude, in feed order.
C4_PositiveMagnitudes ==
    Returned =>
        /\ \A j \in 1..Len(run.loaded.df) :
            run.loaded.df[j].mag # <<>> /\ run.loaded.df[j].mag[1] > 0
        /\ AllWellFormed(run.resp) =>
            LET fs == run.resp.data.features
                keep == PositiveIdx(fs)
            IN  /\ Len(run.loaded.df) = Cardinality(keep)
                /\ \A j \in 1..Len(run.loaded.df) :
                    SameEvent(run.loaded.df[j], fs[NthOf(keep, j)])

\* Magnitudes [null, -1.0, 3.1] gave the one row 3.1.
C4_Witness ==
    /\ Returned
    /\ run.resp = Json(<<Feat(<<>>, 1), Feat(<<-100>>, 4), Feat(<<310>>, 3)>>)
    /\ Len(run.loaded.df) = 1
    /\ run.loaded.df[1].mag = <<310>>

\* C5 (as claimed): a malformed feature is skipped alone; the pass is not
\* aborted and every well-formed feature of positive magnitude of the feed
\* is in the table.
C5_SkipsMalformedOnly ==
    (Returned /\ HasFeatures(run.resp)) =>
        LET fs == run.resp.data.features IN
        \A i \in 1..Len(fs) :
            (WellFormed(fs[i]) /\ fs[i].mag # <<>> /\ fs[i].mag[1] > 0) =>
                \E j \in 1..Len(run.loaded.df) : SameEvent(run.loaded.df[j], fs[i])

\* C6: on a network failure, a non-JSON body or a body without `features`,
\* load_data returns the empty table and reports the error, nothing escapes
\* to the script, and the run ends with no slider, no table, no map and the
\* warning.
C6_FetchErrorDegrades ==
    (run.stage # "off" /\ run.resp \in Failures) =>
        /\ run.stage # "crashed"
        /\ Returned => (run.loaded.df = <<>> /\ run.loaded.error)
        /\ Filtered => ~run.filter.slider
        /\ run.stage = "done" =>
            /\ ~run.view.table_shown
            /\ ~run.view.map_shown
            /\ run.view.warning

\* A body without the `features` key was rendered through the no-data branch.
C6_Witness ==
    /\ run.stage = "done"
    /\ run.resp.kind = "json" /\ ~HasFeatures(run.resp)
    /\ run.loaded.error /\ run.view.warning

\* C7 (as claimed): whenever the slider is built, the threshold applied lies
\* within the observed range [min_value, max_value].
C7_ThresholdInRange ==
    (Filtered /\ run.filter.slider) =>
        /\ run.filter.args.min_value <= run.filter.mag_filter
        /\ run.filter.mag_filter <= run.filter.args.max_value

\* C8: the filter returns exactly the rows of magnitude >= threshold, in
\* their order, and the total shown is their number.
C8_FilterExact ==
    (Filtered /\ run.filter.slider) =>
        LET df == run.loaded.df
            keep == {i \in 1..Len(df) : Mag(df[i]) >= run.filter.mag_filter}
        IN  /\ IsSubseqAt(run.filter.df, df, keep)
            /\ run.filter.total = Len(run.filter.df)

\* A row at the threshold was kept, beside one above it, and one below it
\* was dropped.
C8_Witness ==
    /\ Filtered /\ run.filter.slider
    /\ \E i \in 1..Len(run.loaded.df) : Mag(run.loaded.df[i]) < run.filter.mag_filter
    /\ \E i \in 1..Len(run.filter.df) : Mag(run.filter.df[i]) = run.filter.mag_filter
    /\ \E i \in 1..Len(run.filter.df) : Mag(run.filter.df[i]) > run.filter.mag_filter

\* C9: at the end of a run the map is shown exactly when the filtered table
\* is non-empty, the warning exactly when it is empty, and an empty filtered
\* table shows no table rows.
C9_MapXorWarning ==
    run.stage = "done" =>
        /\ run.view.map_shown <=> (run.filter.df # <<>>)
        /\ run.view.warning <=> (run.filter.df = <<>>)
        /\ run.view.map_shown <=> ~run.view.warning
        /\ (run.filter.df = <<>>) => (~run.view.table_shown /\ run.view.table = <<>>)

\* The threshold emptied a non-empty table, and the warning was shown.
C9_Witness ==
    /\ run.stage = "done"
    /\ run.loaded.df # <<>> /\ run.filter.df = <<>>
    /\ run.view.warning /\ ~run.view.map_shown

CountDate(rows, d) == Cardinality({i \in 1..Len(rows) : rows[i].date = d})
CountRow(rows, r) == Cardinality({i \in 1..Len(rows) : rows[i] = r})

\* C10: the table view holds min(20, n) of the n filtered rows, by date
\* descending, no row left out is later than a row shown, and the map gets
\* all n rows.
C10_TableTopRecent ==
    (run.stage = "done" /\ run.view.table_shown) =>
        LET df == run.filter.df
            tb == run.view.table
            grid == [i \in 1..Len(df) |-> GridRow(df[i])]
            oldest == tb[Len(tb)].date
        IN  /\ Len(tb) = Min2(HeadRows, Len(df))
            /\ \A j \in 1..(Len(tb) - 1) : tb[j].date >= tb[j + 1].date
            /\ \A j \in 1..Len(tb) : CountRow(tb, tb[j]) <= CountRow(grid, tb[j])
            /\ \A i \in 1..Len(df) :
                df[i].date > oldest => CountDate(tb, df[i].date) = CountDate(df, df[i].date)
            /\ run.view.map_shown /\ run.view.map = df

\* More than 20 filtered rows, not in date order: 20 shown, all on the map.
C10_Witness ==
    /\ run.stage = "done"
    /\ Len(run.filter.df) > HeadRows
    /\ Len(run.view.table) = HeadRows
    /\ Len(run.view.map) = Len(run.filter.df)
    /\ \E i \in 1..(Len(run.filter.df) - 1) :
        run.filter.df[i].date < run.filter.df[i + 1].date

====
